---------------------------- MODULE Spec2Model ----------------------------
(***************************************************************************)
(* A model of numerox/numerai.py: the submission status poller, the       *)
(* controlling-capital evaluator, the stake aggregator and the earnings /  *)
(* leaderboard aggregators.  Every public function is one action that      *)
(* records its arguments, the gateway queries it issued and its outcome    *)
(* (a returned value or the raised exception) in `call`; status_block is   *)
(* a loop whose iterations interleave with the gateway resolving metrics.  *)
(*                                                                         *)
(* Python values are tagged records: None, numbers, booleans, dicts.       *)
(* Amounts are exact integers (scaled units); time is in whole seconds.    *)
(***************************************************************************)
EXTENDS Integers, Sequences, FiniteSets, TLC

VARIABLES
    gw,        \* the gateway's raw submission status of the upload: key -> raw value
    pc,        \* status_block's position: "idle", "poll", "sleep", "done"
    verbose,   \* status_block's verbose argument
    t0,        \* status_block's t0 (seconds)
    now,       \* the wall clock, time.time() (seconds)
    seen,      \* status_block's list `seen`
    out,       \* the lines status_block has printed
    fetched,   \* what upload_status returned to status_block, one entry per poll:
               \* [t |-> the time of the poll, status |-> the status]
    ret,       \* the status status_block returned
    call       \* the client's current or last call: its function, arguments and outcome

vars == <<gw, pc, verbose, t0, now, seen, out, fetched, ret, call>>

pollerVars == <<pc, verbose, t0, seen, out, fetched, ret>>

\* no call has been made yet.  The functions keep no state between calls, so a
\* behaviour holds one call of one function.
NoCall == [op |-> "none"]

Ready == pc = "idle" /\ call = NoCall

---------------------------------------------------------------------------
(* Bounds of the model *)

\* the polls one status_block run may make before the model stops it
MaxPolls == 4

---------------------------------------------------------------------------
(* Python values *)

None == [tag |-> "none"]

Num(n) == [tag |-> "num", n |-> n]

Bool(b) == [tag |-> "bool", b |-> b]

Str(s) == [tag |-> "str", s |-> s]

\* the gateway's wrapper {pending: ..., value: ...} around a boolean metric
Wrapped(p, v) == [tag |-> "dict", pending |-> p, value |-> v]

\* bool(x)
Truthy(x) ==
    CASE x.tag = "none" -> FALSE
      [] x.tag = "bool" -> x.b
      [] x.tag = "num"  -> x.n # 0
      [] OTHER          -> TRUE

\* x and y
PyAnd(x, y) == IF Truthy(x) THEN y ELSE x

\* str(value) of the "{:>9}" format
FmtB(v) ==
    [str |-> CASE v.tag = "bool" -> IF v.b THEN "True" ELSE "False"
               [] v.tag = "none" -> "None"
               [] OTHER          -> "other"]

\* the "{:>9.4f}" format: the number with four decimals
FmtF(v) == [f4 |-> IF v.tag = "bool" THEN (IF v.b THEN 1 ELSE 0) ELSE v.n]

RECURSIVE SeqSum(_)
SeqSum(s) == IF s = <<>> THEN 0 ELSE Head(s) + SeqSum(Tail(s))

Min(a, b) == IF a <= b THEN a ELSE b

Range(s) == {s[i] : i \in DOMAIN s}

---------------------------------------------------------------------------
(* Submission status: upload_status, is_controlling_capital, status_block *)

\* the keys of the status dictionary, in the dictionary's iteration order
KeyOrder == <<"consistency", "originality", "concordance", "validation_logloss">>

Keys == Range(KeyOrder)

\* what the gateway holds for a key that is still pending
PendingRaw(k) ==
    IF k \in {"originality", "concordance"} THEN Wrapped(TRUE, None) ELSE None

\* the values the gateway may resolve a key to
ResolvedRaw(k) ==
    CASE k = "consistency"        -> {Num(74), Num(75)}
      [] k = "validation_logloss" -> {Num(69)}
      [] OTHER                    -> {Wrapped(FALSE, Bool(TRUE)), Wrapped(FALSE, Bool(FALSE))}

\* upload_status: unwrap the dict-valued entries of the raw status
UploadStatus(raw) ==
    [k \in DOMAIN raw |-> IF raw[k].tag = "dict" THEN raw[k].value ELSE raw[k]]

\* None in status.values()
HasNone(status) == \E k \in DOMAIN status : status[k] = None

\* variant: the threshold taken as strict
ConsistencyOkStrict(status) == Bool(status["consistency"].n > 75)

\* status['consistency'] >= 75
ConsistencyOk(status) == Bool(status["consistency"].n >= 75)

IsControllingCapital(status) ==
    IF HasNone(status)
    THEN Bool(FALSE)
    ELSE PyAnd(PyAnd(ConsistencyOk(status), status["originality"]),
               status["concordance"])

\* one progress line of status_block: the metric, its formatted value and the
\* elapsed time (seconds; the code prints it divided by 60)
ProgressLine(key, value, elapsed) ==
    [metric  |-> key,
     value   |-> IF key \in {"originality", "concordance"} THEN FmtB(value) ELSE FmtF(value),
     elapsed |-> elapsed]

\* variant: the loop without the `key not in seen` test on the printed line
RECURSIVE ScanStatusNoSeenCheck(_, _, _, _, _, _)
ScanStatusNoSeenCheck(status, i, sn, ou, elapsed, verb) ==
    IF i > Len(KeyOrder)
    THEN [seen |-> sn, out |-> ou]
    ELSE LET key   == KeyOrder[i]
             value == status[key]
         IN IF value # None
            THEN ScanStatusNoSeenCheck(status, i + 1,
                                       IF key \in Range(sn) THEN sn ELSE Append(sn, key),
                                       IF verb THEN Append(ou, ProgressLine(key, value, elapsed)) ELSE ou,
                                       elapsed, verb)
            ELSE ScanStatusNoSeenCheck(status, i + 1, sn, ou, elapsed, verb)

\* the `for key, value in status.items()` loop, from the i-th key on:
\* the lists seen and out after it
RECURSIVE ScanStatus(_, _, _, _, _, _)
ScanStatus(status, i, sn, ou, elapsed, verb) ==
    IF i > Len(KeyOrder)
    THEN [seen |-> sn, out |-> ou]
    ELSE LET key   == KeyOrder[i]
             value == status[key]
         IN IF value # None /\ key \notin Range(sn)
            THEN ScanStatus(status, i + 1, Append(sn, key),
                            IF verb THEN Append(ou, ProgressLine(key, value, elapsed)) ELSE ou,
                            elapsed, verb)
            ELSE ScanStatus(status, i + 1, sn, ou, elapsed, verb)

\* variant: the exit test one key short
AllSeenOneShort(status, sn) == Cardinality(DOMAIN status) - 1 <= Len(sn)

\* the loop's exit test: len(status) == len(seen)
AllSeen(status, sn) == Cardinality(DOMAIN status) = Len(sn)

\* seconds = min(5 + int((t - t0) / 100.0), 30)
SleepSeconds(elapsed) == Min(5 + (elapsed \div 100), 30)

HeaderLine == [metric |-> "metric", value |-> [str |-> "value"], minutes |-> "minutes"]

\* the gateway scores one more metric of the upload (scoring starts with the upload)
GatewayResolve ==
    /\ pc # "idle"
    /\ \E k \in Keys :
          /\ gw[k] = PendingRaw(k)
          /\ \E v \in ResolvedRaw(k) : gw' = [gw EXCEPT ![k] = v]
    /\ UNCHANGED <<pollerVars, now, call>>

\* status_block is called: lines 75-80
StatusBlockStart ==
    /\ Ready
    /\ \E v \in BOOLEAN :
          /\ verbose' = v
          /\ out' = IF v THEN <<HeaderLine>> ELSE <<>>
    /\ t0' = now
    /\ seen' = <<>>
    /\ fetched' = <<>>
    /\ pc' = "poll"
    /\ call' = [op |-> "status_block"]
    /\ UNCHANGED <<gw, now, ret>>

\* one iteration of the while loop up to the break or the sleep: lines 82-95,
\* and after the break lines 97-102
Poll ==
    /\ pc = "poll"
    /\ LET status == UploadStatus(gw)
           r      == ScanStatus(status, 1, seen, out, now - t0, verbose)
       IN /\ fetched' = Append(fetched, [t |-> now, status |-> status])
          /\ seen' = r.seen
          /\ IF AllSeen(status, r.seen)
             THEN /\ pc' = "done"
                  /\ ret' = status
                  /\ out' = IF verbose
                            THEN Append(r.out, [metric  |-> "controlling capital",
                                                value   |-> FmtB(IsControllingCapital(status)),
                                                elapsed |-> now - t0])
                            ELSE r.out
             ELSE /\ pc' = "sleep"
                  /\ out' = r.out
                  /\ UNCHANGED ret
    /\ UNCHANGED <<gw, verbose, t0, now, call>>

\* time.sleep(seconds): line 96
Sleep ==
    /\ pc = "sleep"
    /\ Len(fetched) < MaxPolls
    /\ now' = now + SleepSeconds(now - t0)
    /\ pc' = "poll"
    /\ UNCHANGED <<gw, verbose, t0, seen, out, fetched, ret, call>>

\* is_controlling_capital called on a status dictionary
StatusValues(k) ==
    CASE k = "consistency"        -> {None, Num(74), Num(75), Num(76)}
      [] k = "validation_logloss" -> {None, Num(69), Num(70)}
      [] OTHER                    -> {None, Bool(TRUE), Bool(FALSE)}

Statuses == {s \in [Keys -> UNION {StatusValues(k) : k \in Keys}] :
                \A k \in Keys : s[k] \in StatusValues(k)}

CallIsControllingCapital ==
    /\ Ready
    /\ \E s \in Statuses :
          call' = [op |-> "is_controlling_capital", status |-> s,
                   result |-> IsControllingCapital(s)]
    /\ UNCHANGED <<gw, pollerVars, now>>

---------------------------------------------------------------------------
(* Outcomes of a call, and the data frames of pandas *)

Return(v) == [kind |-> "return", value |-> v]

Raise(e) == [kind |-> "raise", exc |-> e]

\* pd.DataFrame(list of dicts): the columns are the keys of the dicts, none
\* when the list is empty
DataFrame(dicts, keys) ==
    [columns |-> IF dicts = <<>> THEN <<>> ELSE keys, rows |-> dicts]

\* df[[c1, c2, ...]]: the listed columns, a KeyError when one is missing
Select(df, cols) ==
    IF Range(cols) \subseteq Range(df.columns)
    THEN Return([columns |-> cols,
                 rows    |-> [i \in DOMAIN df.rows |->
                                 [c \in Range(cols) |-> df.rows[i][c]]]])
    ELSE Raise("KeyError")

\* pd.concat([df, e]) of two frames with the same columns
Concat(df, e) == [columns |-> df.columns, rows |-> df.rows \o e.rows]

RECURSIVE SelectSeq2(_, _)
\* the elements of s that satisfy Test, in order (Test is a function s-element -> BOOLEAN)
SelectSeq2(s, Test) ==
    IF s = <<>> THEN <<>>
    ELSE IF Test[Head(s)] THEN <<Head(s)>> \o SelectSeq2(Tail(s), Test)
         ELSE SelectSeq2(Tail(s), Test)

---------------------------------------------------------------------------
(* Stakes: get_stakes *)

\* the first round with staking
FirstStakingRound == 61

\* the numbers the gateway sends, as it sends them (strings), and float() of each
RawNumbers == {Str("0"), Str("0.0"), Str("1"), Str("2")}

Float(x) ==
    CASE x.s = "0"   -> 0
      [] x.s = "0.0" -> 0
      [] x.s = "1"   -> 1
      [] x.s = "2"   -> 2

\* an insertedAt string, written by the microsecond it names
Stamp(t) == [tag |-> "str", micros |-> t]

\* strptime(s['insertedAt'], '%Y-%m-%dT%H:%M:%S.%fZ')
Strptime(x) == x.micros

\* the time the stake has stood, in days: t.days + t.seconds / secperday +
\* t.microseconds / micperday, times micperday (so that it is a whole number:
\* the microseconds from insertedAt to now)
DaysStaked(nowT, insertedAt) == nowT - Strptime(insertedAt)

\* variant: round 61 refused too
RoundRefusedInclusive(round_number) ==
    round_number # None /\ round_number.n <= FirstStakingRound

\* lines 169-172: whether the round number is refused
RoundRefused(round_number) ==
    round_number # None /\ round_number.n < FirstStakingRound

\* lines 169-173: the number sent to the gateway
QueryNumber(round_number) == IF round_number = None THEN 0 ELSE round_number.n

RECURSIVE MassageStakes(_, _)
\* lines 184-198: the list stakes2
MassageStakes(stakes, nowT) ==
    IF stakes = <<>> THEN <<>>
    ELSE LET user == Head(stakes).username
             s    == Head(stakes).stake
             rest == MassageStakes(Tail(stakes), nowT)
         IN IF s.value # None
            THEN <<[user |-> user,
                    s    |-> Float(s.value),
                    c    |-> Float(s.confidence),
                    soc  |-> Float(s.soc),
                    days |-> DaysStaked(nowT, s.insertedAt)]>> \o rest
            ELSE rest

\* line 206: stakes.user[stakes.c == 0].tolist()
CZeroUsers(rows) ==
    LET zero == SelectSeq2(rows, [r \in Range(rows) |-> r.c = 0])
    IN [i \in DOMAIN zero |-> zero[i].user]

\* variant: the C=0 rows left in the table
NonZeroRowsKeepAll(rows) == rows

\* line 207: stakes[stakes.c != 0]
NonZeroRows(rows) == SelectSeq2(rows, [r \in Range(rows) |-> r.c # 0])

\* whether row a sorts strictly before row b: c descending, then days descending
SortsBefore(a, b) == a.c > b.c \/ (a.c = b.c /\ a.days > b.days)

RECURSIVE InsertRow(_, _)
\* row put into the sorted list behind every row it does not sort strictly before
InsertRow(sorted, row) ==
    IF sorted = <<>> THEN <<row>>
    ELSE IF SortsBefore(row, Head(sorted))
         THEN <<row>> \o sorted
         ELSE <<Head(sorted)>> \o InsertRow(Tail(sorted), row)

RECURSIVE SortValuesFrom(_, _)
SortValuesFrom(sorted, rows) ==
    IF rows = <<>> THEN sorted
    ELSE SortValuesFrom(InsertRow(sorted, Head(rows)), Tail(rows))

\* lines 210-211: sort_values(['c', 'days'], ascending=[False, False]), a stable sort
SortValues(rows) == SortValuesFrom(<<>>, rows)

\* soc.cumsum(): the running sum, each row's own value included
CumSum(rows) == [i \in DOMAIN rows |-> SeqSum([k \in 1..i |-> rows[k].soc])]

\* variant: the running sum with the row's own soc left in
CumSumAboveInclusive(rows) == CumSum(rows)

\* line 212: stakes.soc.cumsum(axis=0) - stakes.soc
CumSumAbove(rows) == [i \in DOMAIN rows |-> CumSum(rows)[i] - rows[i].soc]

\* line 213: stakes.insert(3, 'cumsum', cumsum)
InsertCumsum(rows, cumsum) ==
    [columns |-> <<"days", "s", "soc", "cumsum", "c", "user">>,
     rows    |-> [i \in DOMAIN rows |->
                     [days |-> rows[i].days, s |-> rows[i].s, soc |-> rows[i].soc,
                      cumsum |-> cumsum[i], c |-> rows[i].c, user |-> rows[i].user]]]

\* get_stakes: the queries it sends and its outcome, given the leaderboard the
\* gateway answers with and the time of the call
GetStakes(round_number, leaderboard, nowT) ==
    IF RoundRefused(round_number)
    THEN [queries |-> <<>>, result |-> Raise("ValueError")]
    ELSE LET stakes2 == MassageStakes(leaderboard, nowT)
             df      == DataFrame(stakes2, <<"user", "s", "c", "soc", "days">>)
             sel     == Select(df, <<"days", "s", "soc", "c", "user">>)
             sorted  == SortValues(NonZeroRows(sel.value.rows))
         IN [queries |-> <<[query |-> "stakes", number |-> QueryNumber(round_number)]>>,
             result  |-> IF sel.kind = "raise" THEN sel
                         ELSE Return([table        |-> InsertCumsum(sorted, CumSumAbove(sorted)),
                                      c_zero_users |-> CZeroUsers(sel.value.rows)])]

\* the stakers the gateway may list: at most MaxStakers users
MaxStakers == 3

UserNames == <<"alice", "bob", "carol", "dave", "erin">>

\* the insertedAt stamps and the time of the call, in microseconds
Stamps == {1, 2}

StakeNow == 1 + 2

\* a user without an active stake has a stake record of nulls
NoStake == [insertedAt |-> None, soc |-> None, confidence |-> None, value |-> None]

StakeRecords ==
    {NoStake} \cup
    [insertedAt : {Stamp(t) : t \in Stamps}, soc : {Str("1"), Str("2")},
     confidence : RawNumbers, value : {Str("1")}]

\* a leaderboard: one entry per user, the first users of UserNames, with the
\* stake records f
Leaderboard(f) == [i \in DOMAIN f |-> [username |-> UserNames[i], stake |-> f[i]]]

RoundArguments == {None, Num(0), Num(FirstStakingRound - 1), Num(FirstStakingRound)}

CallGetStakes ==
    /\ Ready
    /\ \E r \in RoundArguments, n \in 0..MaxStakers :
       \E f \in [1..n -> StakeRecords] :
          LET lb == Leaderboard(f)
              g  == GetStakes(r, lb, StakeNow)
          IN call' = [op |-> "get_stakes", round_number |-> r,
                      leaderboard |-> IF g.queries = <<>> THEN <<>> ELSE lb,
                      queries |-> g.queries, result |-> g.result]
    /\ UNCHANGED <<gw, pollerVars, now>>

---------------------------------------------------------------------------
(* Earnings: raw_earnings_to_df, download_raw_earnings, download_earnings, ten99 *)

\* variant: skipped when either payment record is absent
SkipEarningsEither(main, stake) == main = None \/ stake = None

\* line 292: the entry is skipped
SkipEarnings(main, stake) == main = None /\ stake = None

\* lines 294-300: the row x of one leaderboard entry
EarningsRow(user, round_number) ==
    LET main  == user.paymentGeneral
        stake == user.paymentStaking
    IN [round     |-> round_number,
        user      |-> user.username,
        usd_main  |-> IF main # None THEN main.usdAmount ELSE 0,
        nmr_main  |-> IF main # None /\ "nmrAmount" \in DOMAIN main
                      THEN main.nmrAmount ELSE 0,
        usd_stake |-> IF stake # None THEN stake.usdAmount ELSE 0]

RECURSIVE EarningsRows(_, _)
\* lines 288-301: the list earnings
EarningsRows(raw_earnings, round_number) ==
    IF raw_earnings = <<>> THEN <<>>
    ELSE LET user == Head(raw_earnings)
             rest == EarningsRows(Tail(raw_earnings), round_number)
         IN IF SkipEarnings(user.paymentGeneral, user.paymentStaking)
            THEN rest
            ELSE <<EarningsRow(user, round_number)>> \o rest

\* lines 302-304: pd.DataFrame(data=earnings, columns=columns)
RawEarningsToDf(raw_earnings, round_number) ==
    [columns |-> <<"round", "user", "usd_main", "nmr_main", "usd_stake">>,
     rows    |-> EarningsRows(raw_earnings, round_number)]

\* the gateway's data of the rounds: board[1] answers for the odd rounds,
\* board[2] for the even ones
RoundData(board, num) == board[(num % 2) + 1]

\* lines 236-247 and 310-321: r0 and r1, and whether get_current_round is asked
RoundRange(round_start, round_end, current) ==
    [r0 |-> IF round_start = None THEN current ELSE round_start.n,
     r1 |-> IF round_end = None THEN current ELSE round_end.n,
     asked |-> IF round_start = None \/ round_end = None
               THEN <<[query |-> "current_round"]>> ELSE <<>>]

\* a local variable that has not been assigned
Unbound == [unbound |-> TRUE]

RECURSIVE EarningsLoop(_, _, _, _)
\* lines 248-254: the for loop; st holds the round num to do next and the table
\* df so far
EarningsLoop(st, r0, r1, board) ==
    IF st.num > r1 THEN st.df
    ELSE LET e == RawEarningsToDf(RoundData(board, st.num), st.num)
         IN EarningsLoop([num |-> st.num + 1,
                          df  |-> IF st.num = r0 THEN e ELSE Concat(st.df, e)],
                         r0, r1, board)

\* the queries of the rounds r0..r1, one each, ascending
RoundQueries(kind, r0, r1) ==
    [i \in 1..(IF r1 >= r0 THEN r1 - r0 + 1 ELSE 0) |-> [query |-> kind, number |-> r0 + i - 1]]

\* download_earnings: its queries and its outcome
DownloadEarnings(round_start, round_end, current, board) ==
    LET rr == RoundRange(round_start, round_end, current)
        df == EarningsLoop([num |-> rr.r0, df |-> Unbound], rr.r0, rr.r1, board)
    IN [queries |-> rr.asked \o RoundQueries("earnings", rr.r0, rr.r1),
        result  |-> IF df = Unbound THEN Raise("UnboundLocalError") ELSE Return(df)]

\* the rounds of the year 2017: lines 224-225
Ten99FirstRound == 31

Ten99LastRound == 88

\* df[df.name == user]: the attribute df.name is the column of that name
RowsNamed(df, user) ==
    IF "name" \in Range(df.columns)
    THEN Return([columns |-> df.columns,
                 rows    |-> SelectSeq2(df.rows, [r \in Range(df.rows) |-> r.name = user])])
    ELSE Raise("AttributeError")

\* ten99: its queries and its outcome
Ten99(user, year, board) ==
    IF year # 2017
    THEN [queries |-> <<>>, result |-> Raise("ValueError")]
    ELSE LET d   == DownloadEarnings(Num(Ten99FirstRound), Num(Ten99LastRound), 0, board)
             own == RowsNamed(d.result.value, user)
         IN [queries |-> d.queries,
             result  |-> IF d.result.kind = "raise" THEN d.result
                         ELSE IF own.kind = "raise" THEN own
                         ELSE Select(own.value, <<"round", "usd_main", "nmr_main", "usd_stake">>)]

\* the entries of a raw earnings leaderboard
MaxEntries == 2

\* the rounds a caller names and the gateway's current round
MaxRound == 3

PaymentsGeneral == {None, [usdAmount |-> 5], [usdAmount |-> 5, nmrAmount |-> 2]}

PaymentsStaking == {None, [usdAmount |-> 3, nmrAmount |-> 1]}

EarningsEntries ==
    [username : {"alice", "bob"}, paymentGeneral : PaymentsGeneral,
     paymentStaking : PaymentsStaking]

SeqsUpTo(S, n) == UNION {[1..k -> S] : k \in 0..n}

\* what the gateway may hold for the odd and for the even rounds
EarningsBoards == SeqsUpTo(EarningsEntries, 1) \X SeqsUpTo(EarningsEntries, 1)

RoundBounds == {None} \cup {Num(n) : n \in 1..MaxRound}

CallRawEarningsToDf ==
    /\ Ready
    /\ \E raw \in SeqsUpTo(EarningsEntries, MaxEntries), n \in 1..MaxRound :
          call' = [op |-> "raw_earnings_to_df", raw_earnings |-> raw, round_number |-> n,
                   result |-> Return(RawEarningsToDf(raw, n))]
    /\ UNCHANGED <<gw, pollerVars, now>>

CallDownloadEarnings ==
    /\ Ready
    /\ \E a \in RoundBounds, b \in RoundBounds, cur \in 1..MaxRound, board \in EarningsBoards :
          LET d == DownloadEarnings(a, b, cur, board)
          IN call' = [op |-> "download_earnings", round_start |-> a, round_end |-> b,
                      current |-> cur, board |-> board,
                      queries |-> d.queries, result |-> d.result]
    /\ UNCHANGED <<gw, pollerVars, now>>

CallTen99 ==
    /\ Ready
    /\ \E user \in {"alice", "bob"}, year \in {2017, 2018}, board \in EarningsBoards :
          LET d == Ten99(user, year, board)
          IN call' = [op |-> "ten99", user |-> user, year |-> year, board |-> board,
                      queries |-> d.queries, result |-> d.result]
    /\ UNCHANGED <<gw, pollerVars, now>>

---------------------------------------------------------------------------
(* Leaderboard: raw_leaderboard_to_df, get_leaderboard *)

\* np.nan
NaN == [tag |-> "nan"]

\* lines 338-347: the entry is ignored (not controlling capital)
SkipLeaderboard(x) ==
    \/ x.consistency.n < 75
    \/ x.originality = None
    \/ x.originality.pending \/ ~Truthy(x.originality.value)
    \/ x.concordance = None
    \/ x.concordance.pending \/ ~Truthy(x.concordance.value)

\* lines 349-368: the dictionary `user` of one entry
LeaderboardUser(x, round_number) ==
    [round       |-> round_number,
     name        |-> x.username,
     validation  |-> x.validationLogloss,
     consistency |-> x.consistency,
     live        |-> IF x.liveLogloss = None THEN NaN ELSE x.liveLogloss,
     usd_main    |-> IF x.paymentGeneral # None THEN x.paymentGeneral.usdAmount ELSE 0,
     nmr_main    |-> IF x.paymentGeneral # None THEN x.paymentGeneral.nmrAmount ELSE 0,
     usd_stake   |-> IF x.paymentStaking # None THEN x.paymentStaking.usdAmount ELSE 0]

\* the keys of that dictionary, in the order they are set
LeaderboardUserKeys ==
    <<"round", "name", "validation", "consistency", "live",
      "usd_main", "nmr_main", "usd_stake">>

RECURSIVE LeaderboardUsers(_, _)
\* lines 334-370: the list leaderboard
LeaderboardUsers(raw_leaderboard, round_number) ==
    IF raw_leaderboard = <<>> THEN <<>>
    ELSE LET x    == Head(raw_leaderboard)
             rest == LeaderboardUsers(Tail(raw_leaderboard), round_number)
         IN IF SkipLeaderboard(x) THEN rest
            ELSE <<LeaderboardUser(x, round_number)>> \o rest

\* lines 373-374: the columns the returned frame is to have
LeaderboardColumns ==
    <<"round", "name", "consistency", "validation", "live",
      "usd_main", "nmr_main", "usd_stake", "nmr_stake">>

\* raw_leaderboard_to_df: its outcome
RawLeaderboardToDf(raw_leaderboard, round_number) ==
    Select(DataFrame(LeaderboardUsers(raw_leaderboard, round_number), LeaderboardUserKeys),
           LeaderboardColumns)

RECURSIVE LeaderboardLoop(_, _, _, _)
\* lines 322-328: the for loop; st holds the round num to do next, the table df
\* so far and the gateway calls so far.  An exception of the transform ends
\* the call.
LeaderboardLoop(st, r0, r1, board) ==
    IF st.num > r1
    THEN [queries |-> st.queries,
          result  |-> IF st.df = Unbound THEN Raise("UnboundLocalError") ELSE Return(st.df)]
    ELSE LET asked == Append(st.queries, [query |-> "leaderboard", number |-> st.num])
             dfi   == RawLeaderboardToDf(RoundData(board, st.num), st.num)
         IN IF dfi.kind = "raise"
            THEN [queries |-> asked, result |-> dfi]
            ELSE LeaderboardLoop([num     |-> st.num + 1,
                                  df      |-> IF st.num = r0 THEN dfi.value
                                              ELSE Concat(st.df, dfi.value),
                                  queries |-> asked],
                                 r0, r1, board)

\* get_leaderboard: its queries and its outcome
GetLeaderboard(round_start, round_end, current, board) ==
    LET rr == RoundRange(round_start, round_end, current)
    IN LeaderboardLoop([num |-> rr.r0, df |-> Unbound, queries |-> rr.asked], rr.r0, rr.r1, board)

Checks == {None, Wrapped(TRUE, None), Wrapped(FALSE, Bool(TRUE)), Wrapped(FALSE, Bool(FALSE))}

LeaderboardEntries ==
    [username : {"alice"}, consistency : {Num(74), Num(75)},
     originality : Checks, concordance : Checks,
     validationLogloss : {Num(69)}, liveLogloss : {None, Num(70)},
     paymentGeneral : {None, [usdAmount |-> 5, nmrAmount |-> 2]},
     paymentStaking : PaymentsStaking]

\* an entry that passes the controlling-capital filter, and one that does not
QualifiedEntry ==
    [username |-> "alice", consistency |-> Num(75),
     originality |-> Wrapped(FALSE, Bool(TRUE)), concordance |-> Wrapped(FALSE, Bool(TRUE)),
     validationLogloss |-> Num(69), liveLogloss |-> None,
     paymentGeneral |-> None, paymentStaking |-> None]

UnqualifiedEntry == [QualifiedEntry EXCEPT !.username = "bob", !.consistency = Num(74)]

\* what the gateway may hold for the odd and for the even rounds
LeaderboardBoards ==
    {<<QualifiedEntry>>, <<QualifiedEntry, UnqualifiedEntry>>}
        \X {<<QualifiedEntry>>, <<UnqualifiedEntry, QualifiedEntry>>}

CallRawLeaderboardToDf ==
    /\ Ready
    /\ \E raw \in SeqsUpTo(LeaderboardEntries, 1) \cup
                   {<<UnqualifiedEntry, QualifiedEntry>>, <<QualifiedEntry, UnqualifiedEntry>>},
          n \in 1..MaxRound :
          call' = [op |-> "raw_leaderboard_to_df", raw_leaderboard |-> raw, round_number |-> n,
                   result |-> RawLeaderboardToDf(raw, n)]
    /\ UNCHANGED <<gw, pollerVars, now>>

CallGetLeaderboard ==
    /\ Ready
    /\ \E a \in RoundBounds, b \in RoundBounds, cur \in 1..MaxRound, board \in LeaderboardBoards :
          LET d == GetLeaderboard(a, b, cur, board)
          IN call' = [op |-> "get_leaderboard", round_start |-> a, round_end |-> b,
                      current |-> cur, board |-> board,
                      queries |-> d.queries, result |-> d.result]
    /\ UNCHANGED <<gw, pollerVars, now>>

---------------------------------------------------------------------------

Init ==
    /\ gw = [k \in Keys |-> PendingRaw(k)]
    /\ pc = "idle"
    /\ verbose = FALSE
    /\ t0 = 0
    /\ now = 0
    /\ seen = <<>>
    /\ out = <<>>
    /\ fetched = <<>>
    /\ ret = None
    /\ call = NoCall

Next ==
    \/ GatewayResolve
    \/ StatusBlockStart
    \/ Poll
    \/ Sleep
    \/ CallIsControllingCapital
    \/ CallGetStakes
    \/ CallRawEarningsToDf
    \/ CallRawLeaderboardToDf
    \/ CallGetLeaderboard
    \/ CallDownloadEarnings
    \/ CallTen99

Spec == Init /\ [][Next]_vars

---------------------------------------------------------------------------
(* The claims *)

\* how often x occurs in the sequence s
Count(s, x) == Cardinality({i \in DOMAIN s : s[i] = x})

LastFetched == fetched[Len(fetched)]

\* C1: status_block polls again exactly while the status it fetched has a null
\* value: every status fetched before the last one has a null, the run is over
\* exactly when the last one has none, and the status returned is that last
\* one, with no null value.
C1_PollsUntilResolved ==
    /\ \A i \in 1..(Len(fetched) - 1) : \E k \in Keys : fetched[i].status[k] = None
    /\ fetched # <<>> =>
          (pc = "done" <=> \A k \in Keys : LastFetched.status[k] # None)
    /\ fetched = <<>> => pc \in {"idle", "poll"}
    /\ pc = "done" => /\ ret = LastFetched.status
                      /\ \A k \in Keys : ret[k] # None

\* a status that resolves fully on the 3rd poll gives exactly 3 polls
C1_Witness ==
    /\ pc = "done"
    /\ Len(fetched) = 3
    /\ \A k \in Keys : ret[k] # None

\* C2: is_controlling_capital is false when a value of the status is null;
\* otherwise it is true exactly when consistency >= 75 and originality and
\* concordance are truthy, whatever the value of the fourth key.
C2_ControllingCapital ==
    call.op = "is_controlling_capital" =>
        LET s == call.status
            r == call.result
        IN IF \E k \in Keys : s[k] = None
           THEN r = Bool(FALSE)
           ELSE /\ r = Bool(s["consistency"].n >= 75 /\ Truthy(s["originality"])
                                                     /\ Truthy(s["concordance"]))
                /\ \A v \in StatusValues("validation_logloss") \ {None} :
                      IsControllingCapital([s EXCEPT !["validation_logloss"] = v]) = r

C2_Witness ==
    /\ call.op = "is_controlling_capital"
    /\ call.status["consistency"] = Num(75)
    /\ call.result = Bool(TRUE)

\* whether the gateway's entry is a staker with confidence 0
ZeroConfidence(e) == e.stake.confidence # None /\ Float(e.stake.confidence) = 0

GetStakesReturned == call.op = "get_stakes" /\ call.result.kind = "return"

\* C3: the table get_stakes returns has no row with confidence 0, and its
\* list of excluded users holds every staker with confidence 0 exactly once
\* and nobody else.
C3_ZeroConfidenceExcluded ==
    GetStakesReturned =>
        LET v == call.result.value
        IN /\ \A i \in DOMAIN v.table.rows : v.table.rows[i].c # 0
           /\ \A i \in DOMAIN call.leaderboard :
                 Count(v.c_zero_users, call.leaderboard[i].username)
                    = IF ZeroConfidence(call.leaderboard[i]) THEN 1 ELSE 0
           /\ Range(v.c_zero_users) \subseteq
                 {call.leaderboard[i].username : i \in DOMAIN call.leaderboard}

C3_Witness ==
    /\ GetStakesReturned
    /\ Len(call.result.value.c_zero_users) = 2
    /\ Len(call.result.value.table.rows) = 1

\* C4: the rows get_stakes returns are in the order confidence descending,
\* then days staked descending, and each row's cumsum is the sum of soc over
\* the rows above it: 0 in the first row and never decreasing down the table.
C4_PrizePoolOrder ==
    GetStakesReturned =>
        LET rows == call.result.value.table.rows
        IN /\ \A i, j \in DOMAIN rows :
                 i < j => \/ rows[i].c > rows[j].c
                          \/ rows[i].c = rows[j].c /\ rows[i].days >= rows[j].days
           /\ \A i \in DOMAIN rows :
                 rows[i].cumsum = SeqSum([k \in 1..(i - 1) |-> rows[k].soc])
           /\ rows # <<>> => rows[1].cumsum = 0
           /\ \A i, j \in DOMAIN rows : i < j => rows[i].cumsum <= rows[j].cumsum

\* three rows that the gateway listed in another order than the table's
C4_Witness ==
    /\ GetStakesReturned
    /\ LET rows == call.result.value.table.rows
       IN /\ Len(rows) = 3
          /\ rows[1].c > rows[2].c
          /\ rows[2].c = rows[3].c /\ rows[2].days > rows[3].days
          /\ rows[3].cumsum > rows[2].cumsum
          /\ rows[1].user = call.leaderboard[3].username

\* C5: get_stakes with a round number below 61 fails with the invalid-argument
\* error (ValueError) and sends no query; with a round number of 61 or more it
\* queries the gateway with that number; with no round number it queries with 0.
C5_RoundNumber ==
    call.op = "get_stakes" =>
        LET r == call.round_number
        IN /\ (r # None /\ r.n < 61) =>
                 call.result = Raise("ValueError") /\ call.queries = <<>>
           /\ (r # None /\ r.n >= 61) =>
                 call.queries = <<[query |-> "stakes", number |-> r.n]>>
           /\ r = None => call.queries = <<[query |-> "stakes", number |-> 0]>>

C5_Witness ==
    /\ call.op = "get_stakes"
    /\ call.round_number = Num(60)
    /\ call.result = Raise("ValueError")
    /\ call.queries = <<>>

\* the entries of raw that have a payment record
Paid(raw) ==
    SelectSeq2(raw, [e \in Range(raw) |->
                        ~(e.paymentGeneral = None /\ e.paymentStaking = None)])

MetricLines == SelectSeq2(out, [l \in Range(out) |-> l.metric \in Keys])

\* the polls that found key k resolved
ResolvedAt(k) == {i \in DOMAIN fetched : fetched[i].status[k] # None}

FirstResolvedAt(k) == CHOOSE i \in ResolvedAt(k) : \A j \in ResolvedAt(k) : i <= j

\* C9: in verbose mode status_block prints, for every metric, one progress
\* line at the first poll that finds the metric resolved (the line carries that
\* poll's elapsed time) and none before or after, and the lines stand in the
\* order in which the metrics first resolved.
C9_OneLinePerMetric ==
    (pc # "idle" /\ verbose) =>
        /\ \A k \in Keys :
              Cardinality({i \in DOMAIN MetricLines : MetricLines[i].metric = k})
                 = IF ResolvedAt(k) = {} THEN 0 ELSE 1
        /\ \A i \in DOMAIN MetricLines :
              MetricLines[i].elapsed = fetched[FirstResolvedAt(MetricLines[i].metric)].t - t0
        /\ \A i, j \in DOMAIN MetricLines :
              i < j => FirstResolvedAt(MetricLines[i].metric)
                          <= FirstResolvedAt(MetricLines[j].metric)

\* a verbose run whose metrics resolved at three different polls, in another
\* order than the dictionary's
C9_Witness ==
    /\ pc = "done" /\ verbose
    /\ Len(MetricLines) = Len(KeyOrder)
    /\ Cardinality({MetricLines[i].elapsed : i \in DOMAIN MetricLines}) = 3
    /\ MetricLines[1].metric = "concordance"

\* the rounds of the claim's range, from the call's arguments
ClaimedRange ==
    [r0 |-> IF call.round_start = None THEN call.current ELSE call.round_start.n,
     r1 |-> IF call.round_end = None THEN call.current ELSE call.round_end.n]

\* the round queries a call sent, without the current-round lookups
RoundFetches == SelectSeq2(call.queries, [q \in Range(call.queries) |-> q.query # "current_round"])

\* C6: download_earnings and get_leaderboard fetch every round of the resolved
\* range once, in ascending order, and return one table: the rows of the
\* rounds of the range, in round order, and of no other round.
C6_RoundRangeTable ==
    call.op \in {"download_earnings", "get_leaderboard"} =>
        LET rr == ClaimedRange
        IN /\ call.result.kind = "return"
           /\ Len(RoundFetches) = (IF rr.r1 >= rr.r0 THEN rr.r1 - rr.r0 + 1 ELSE 0)
           /\ \A i \in DOMAIN RoundFetches : RoundFetches[i].number = rr.r0 + i - 1
           /\ LET rows == call.result.value.rows
              IN /\ \A i \in DOMAIN rows : rows[i].round \in rr.r0..rr.r1
                 /\ \A i, j \in DOMAIN rows : i < j => rows[i].round <= rows[j].round
                 /\ call.op = "download_earnings" =>
                       \A n \in rr.r0..rr.r1 :
                          SelectSeq2(rows, [r \in Range(rows) |-> r.round = n])
                             = RawEarningsToDf(RoundData(call.board, n), n).rows

\* the entries of raw that are controlling capital, as the claim lists the conditions
Qualified(raw) ==
    SelectSeq2(raw, [x \in Range(raw) |->
        /\ x.consistency.n >= 75
        /\ x.originality # None /\ ~x.originality.pending /\ Truthy(x.originality.value)
        /\ x.concordance # None /\ ~x.concordance.pending /\ Truthy(x.concordance.value)])

\* C7: raw_leaderboard_to_df returns a table with one row for every entry that
\* is controlling capital and none for the others; the row carries the round,
\* the name, consistency, the validation loss, the live loss (not-a-number for
\* null) and the payments, 0 where the payment record is null.
C7_LeaderboardRows ==
    call.op = "raw_leaderboard_to_df" =>
        /\ call.result.kind = "return"
        /\ LET q    == Qualified(call.raw_leaderboard)
               rows == call.result.value.rows
           IN /\ Len(rows) = Len(q)
              /\ \A i \in DOMAIN rows :
                    /\ rows[i].round = call.round_number
                    /\ rows[i].name = q[i].username
                    /\ rows[i].consistency = q[i].consistency
                    /\ rows[i].validation = q[i].validationLogloss
                    /\ rows[i].live = IF q[i].liveLogloss = None THEN NaN ELSE q[i].liveLogloss
                    /\ rows[i].usd_main = IF q[i].paymentGeneral = None THEN 0
                                          ELSE q[i].paymentGeneral.usdAmount
                    /\ rows[i].nmr_main = IF q[i].paymentGeneral = None THEN 0
                                          ELSE q[i].paymentGeneral.nmrAmount
                    /\ rows[i].usd_stake = IF q[i].paymentStaking = None THEN 0
                                           ELSE q[i].paymentStaking.usdAmount

\* C8: ten99 for the year 2017 downloads the rounds 31..88 and returns the rows
\* of the user, with the columns round, usd_main, nmr_main and usd_stake and
\* every round in 31..88; for another year it fails and downloads nothing.
C8_Ten99 ==
    call.op = "ten99" =>
        IF call.year = 2017
        THEN /\ call.result.kind = "return"
             /\ call.queries = [i \in 1..58 |-> [query |-> "earnings", number |-> 30 + i]]
             /\ Range(call.result.value.columns) = {"round", "usd_main", "nmr_main", "usd_stake"}
             /\ \A i \in DOMAIN call.result.value.rows :
                   call.result.value.rows[i].round \in 31..88
             /\ Len(call.result.value.rows)
                   = SeqSum([i \in 1..58 |->
                        Count([j \in DOMAIN Paid(RoundData(call.board, 30 + i)) |->
                                  Paid(RoundData(call.board, 30 + i))[j].username], call.user)])
        ELSE /\ call.result.kind = "raise"
             /\ call.queries = <<>>

=============================================================================
